---- MODULE Spec2Model ----
(***************************************************************************)
(* Model of the SLP backend: the schema registry (app/db.py), the CRUD     *)
(* router factory (app/routers/base.py), the table bindings                *)
(* (app/routers/*.py) and the application shell (app/main.py).             *)
(*                                                                         *)
(* A run exercises one exposed table (variable table): the handlers of a   *)
(* binding are closed over one model class and never touch another table.  *)
(* The reflected table has a primary key column "id" (integer, NOT NULL),  *)
(* a NOT NULL column "enrollment_id" and a nullable column "subject".      *)
(* Each HTTP request is one atomic step: a handler runs in its own         *)
(* session (get_db) and holds no state between requests.                   *)
(***************************************************************************)
EXTENDS Integers, Sequences, FiniteSets, TLC

VARIABLES
  phase,        \* "starting", "serving" or "failed"
  imported,     \* how many router modules main.py has imported
  schema,       \* the tables reflection found (Base.classes)
  table,        \* the exposed table this run sends its requests to
  rows,         \* the committed rows of that table
  request,      \* the request being answered, NoRequest between requests
  response,     \* its response
  lastDeleted   \* the key the previous request deleted with 204, else 0

vars == <<phase, imported, schema, table, rows, request, response, lastDeleted>>

\* ------------------------------------------------------------- bounds
MaxId == 2          \* primary key values are 1..MaxId
MaxSkip == 3        \* skip query values are 0..MaxSkip
MaxLimit == 2       \* explicit limit query values are 0..MaxLimit

\* ---------------------------------------------------- program constants
DefaultSkip == 0
DefaultLimit == 100
HTTP_200_OK == 200
HTTP_201_CREATED == 201
HTTP_204_NO_CONTENT == 204
HTTP_400_BAD_REQUEST == 400
HTTP_404_NOT_FOUND == 404
HTTP_405_METHOD_NOT_ALLOWED == 405
HTTP_422_UNPROCESSABLE_ENTITY == 422
HTTP_500_INTERNAL_SERVER_ERROR == 500

\* ------------------------------------------------------ schema registry
\* TABLE_MAPPING: logical name -> physical table name (the identity here).
TABLE_MAPPING ==
  [n \in {"enrollments", "subjects", "assessments_eol", "assessments_fa",
          "assessments_sa", "assessment_weights", "users_table",
          "myp_grade_boundaries", "dp_grade_boundaries"} |-> n]

\* The router modules in the order main.py imports them; each one looks its
\* table up at import time.
RouterModules ==
  <<"enrollments", "subjects", "assessments_eol", "assessments_fa",
    "assessments_sa", "assessment_weights", "users_table",
    "myp_grade_boundaries", "dp_grade_boundaries">>

AllTables == {TABLE_MAPPING[n] : n \in DOMAIN TABLE_MAPPING}

\* The table a router module asks the registry for when it is imported:
\* model = get_model_by_table_name(TABLE_MAPPING[<its logical name>]).
ModuleTable(name) == TABLE_MAPPING[name]

\* enrollments, assessments_eol and assessment_weights: each binding is the
\* same fixed composition, a registry lookup of its own logical name.
OtherModuleTable(name) == TABLE_MAPPING[name]

LookedUpTable(name) ==
  IF name \in {"enrollments", "assessments_eol", "assessment_weights"}
    THEN OtherModuleTable(name)
    ELSE ModuleTable(name)

\* get_model_by_table_name with the lazy bug: never raises.
get_model_by_table_name_lazy(classes, table_name) ==
  [found |-> TRUE, model |-> table_name]

\* get_model_by_table_name: the automapped class of the table, or ValueError.
get_model_by_table_name(classes, table_name) ==
  IF \E c \in classes : c = table_name
    THEN [found |-> TRUE, model |-> table_name]
    ELSE [found |-> FALSE, model |-> table_name]

\* --------------------------------------------------------------- columns
Null == "null"
\* mapper.columns of the reflected table.
Columns ==
  <<[name |-> "id", primary_key |-> TRUE, nullable |-> FALSE],
    [name |-> "enrollment_id", primary_key |-> FALSE, nullable |-> FALSE],
    [name |-> "subject", primary_key |-> FALSE, nullable |-> TRUE]>>

ColNames == {Columns[i].name : i \in DOMAIN Columns}
Col(c) == CHOOSE col \in {Columns[i] : i \in DOMAIN Columns} : col.name = c

\* pk_name: the name of the first primary-key column.
pk_name ==
  LET i == CHOOSE j \in DOMAIN Columns :
             /\ Columns[j].primary_key
             /\ \A k \in 1..(j - 1) : ~Columns[k].primary_key
  IN Columns[i].name

\* Scalars are written as JSON writes them: an integer is its decimal
\* numeral, null is "null".  Num(n) is the scalar of the integer n.
Num(n) == ToString(n)
PkValues == 1..MaxId
Values(c) ==
  IF c = "id" THEN {Num(n) : n \in PkValues}
  ELSE IF c = "enrollment_id" THEN {"E1", "E2"}
  ELSE {"Math"}

\* pk_type is int: the path parameter item_id is converted to an integer.
\* The set of integers a path segment denotes (empty: the conversion fails).
ParseInt(seg) == {n \in 0..(MaxId + 1) : ToString(n) = seg}

\* model_to_dict: one entry per column of the table.
model_to_dict(row) == [c \in ColNames |-> row[c]]

\* ----------------------------------------------------- derived schemas
\* fields[col.name]: required (type, ...) unless the column is nullable.
Required(c) == ~Col(c).nullable

\* CreateSchema validation: every required field is present, and only a
\* nullable field may be null.
CreateSchemaValid(body) ==
  /\ \A c \in ColNames : Required(c) => c \in DOMAIN body
  /\ \A c \in DOMAIN body : body[c] = Null => Col(c).nullable

\* UpdateSchema validation: every field has the default None, so none is
\* required.  A null for a non-nullable column is accepted only by a
\* validator that makes a field with a None default implicitly optional.
UpdateSchemaValid(body, implicitOptional) ==
  \A c \in DOMAIN body :
    body[c] = Null => (Col(c).nullable \/ implicitOptional)

\* item.dict(exclude_unset=True): exactly the fields the body supplied.
item_dict(body) == [c \in DOMAIN body |-> body[c]]

\* --------------------------------------------------------------- routing
\* A URL path is its sequence of segments after the leading "/": "/api/x/"
\* is <<"api", "x", "">> and "/api/x/1" is <<"api", "x", "1">>.
APIRouter(prefix) == [prefix |-> prefix, routes |-> <<>>]

\* APIRouter.add_api_route: the route's path is the router's prefix followed
\* by the given path.
add_api_route(router, path, method, endpoint) ==
  [router EXCEPT !.routes =
     Append(@, [path |-> router.prefix \o path, method |-> method,
                endpoint |-> endpoint])]

RECURSIVE AddRoutes(_, _, _)
AddRoutes(router, routes, i) ==
  IF i > Len(routes) THEN router
  ELSE AddRoutes(add_api_route(router, routes[i].path, routes[i].method,
                               routes[i].endpoint),
                 routes, i + 1)

\* router.include_router(child): every route of the child is added to the
\* parent through add_api_route, under the child's full path.
include_router(parent, child) == AddRoutes(parent, child.routes, 1)

\* create_crud_router: the five routes, in the order they are declared.
create_crud_router(prefix) ==
  LET r0 == APIRouter(prefix)
      r1 == add_api_route(r0, <<"">>, "GET", "get_all")
      r2 == add_api_route(r1, <<"{item_id}">>, "GET", "get_by_id")
      r3 == add_api_route(r2, <<"">>, "POST", "create")
      r4 == add_api_route(r3, <<"{item_id}">>, "PUT", "update")
  IN add_api_route(r4, <<"{item_id}">>, "DELETE", "delete")

\* The URL prefix each binding passes to the factory.
Prefix(t) ==
  IF t = "subjects" THEN <<"api", "subjects">> ELSE <<"api", "users-table">>

\* routers/subjects.py: the CRUD router included in a second router of the
\* same prefix, then the custom filter route.
SubjectsRouter ==
  LET crud_router == create_crud_router(Prefix("subjects"))
      router == include_router(APIRouter(Prefix("subjects")), crud_router)
  IN add_api_route(router, <<"filter">>, "GET", "filter_subjects")

\* routers/users_table.py: the factory's router itself.
UsersTableRouter == create_crud_router(Prefix("users_table"))

\* main.py: app.include_router(subjects.router) and
\* app.include_router(users_table.router), the app's router having no prefix.
SubjectsRoutes == include_router(APIRouter(<<>>), SubjectsRouter).routes
UsersTableRoutes == include_router(APIRouter(<<>>), UsersTableRouter).routes

\* The routes of the binding of table t, as mounted in the app.
BindingRoutes(t) == IF t = "subjects" THEN SubjectsRoutes ELSE UsersTableRoutes

\* A route's path pattern matches a path: a parameter segment matches any
\* non-empty segment.
PathMatches(pattern, path) ==
  /\ Len(pattern) = Len(path)
  /\ \A i \in 1..Len(path) :
       IF pattern[i] = "{item_id}" THEN path[i] # "" ELSE pattern[i] = path[i]

\* The router's dispatch: the first route matching path and method; 405 if
\* only the path matches some route; 404 if nothing matches.
Dispatch(routes, method, path) ==
  LET full == {i \in DOMAIN routes :
                 PathMatches(routes[i].path, path) /\ routes[i].method = method}
      partial == {i \in DOMAIN routes : PathMatches(routes[i].path, path)}
  IN IF full # {}
       THEN [endpoint |-> routes[CHOOSE i \in full : \A j \in full : i <= j].endpoint,
             status |-> HTTP_200_OK]
     ELSE IF partial # {}
       THEN [endpoint |-> "none", status |-> HTTP_405_METHOD_NOT_ALLOWED]
     ELSE [endpoint |-> "none", status |-> HTTP_404_NOT_FOUND]

\* -------------------------------------------------------------- database
\* The committed table is a set of rows, each a record over ColNames.
\* A handler's database calls are logged in order in the outcome's events;
\* fault names the call of this request that raises an unexpected
\* (connection or query) error: "none", "query", "commit" or "refresh".
Outcome(newRows, status, body, events) ==
  [rows |-> newRows, status |-> status, body |-> body, events |-> events]

\* db.query(model_class).filter(pk == item_id): the rows whose key is n.
QueryByPk(tbl, n) == {r \in tbl : r[pk_name] = Num(n)}

\* The flush of a new or changed row violates a constraint of the table:
\* a null in a NOT NULL column, or the primary key of another row.
IntegrityError(others, row) ==
  \/ \E c \in ColNames : ~Col(c).nullable /\ row[c] = Null
  \/ \E r \in others : r[pk_name] = row[pk_name]

\* The orders in which a query without ORDER BY may return the rows.
Orderings(tbl) ==
  {s \in [1..Cardinality(tbl) -> tbl] :
     \A i, j \in DOMAIN s : i # j => s[i] # s[j]}

Min(a, b) == IF a <= b THEN a ELSE b

\* offset(skip).limit(limit) ignoring the limit.
OffsetLimit_nolimit(s, skip, limit) == SubSeq(s, skip + 1, Len(s))

\* offset(skip).limit(limit) on the rows in the order the query yields them.
OffsetLimit(s, skip, limit) == SubSeq(s, skip + 1, Min(Len(s), skip + limit))

\* ------------------------------------------------------------- handlers
\* raise HTTPException(404) re-raised by "except HTTPException: raise".
NotFound(tbl, events) ==
  Outcome(tbl, HTTP_404_NOT_FOUND, <<>>, events \o <<"respond">>)

\* get_all: List.
get_all(tbl, order, skip, limit, fault) ==
  IF fault = "query"
    THEN Outcome(tbl, HTTP_500_INTERNAL_SERVER_ERROR, <<>>, <<"query", "respond">>)
    ELSE LET items == OffsetLimit(order, skip, limit)
         IN Outcome(tbl, HTTP_200_OK,
                    [i \in DOMAIN items |-> model_to_dict(items[i])],
                    <<"query", "respond">>)

\* get_by_id without "except HTTPException: raise": the 404 is caught by
\* "except Exception" and becomes a 500.
get_by_id_swallow(tbl, n, fault) ==
  IF fault = "query" \/ QueryByPk(tbl, n) = {}
    THEN Outcome(tbl, HTTP_500_INTERNAL_SERVER_ERROR, <<>>, <<"query", "respond">>)
    ELSE Outcome(tbl, HTTP_200_OK,
                 <<model_to_dict(CHOOSE r \in QueryByPk(tbl, n) : TRUE)>>,
                 <<"query", "respond">>)

\* get_by_id: Get.
get_by_id(tbl, n, fault) ==
  IF fault = "query"
    THEN Outcome(tbl, HTTP_500_INTERNAL_SERVER_ERROR, <<>>, <<"query", "respond">>)
    ELSE LET found == QueryByPk(tbl, n)
         IN IF found = {}
              THEN NotFound(tbl, <<"query">>)
              ELSE Outcome(tbl, HTTP_200_OK,
                           <<model_to_dict(CHOOSE r \in found : TRUE)>>,
                           <<"query", "respond">>)

\* The except block of create with the rollback left out.
create_except_norollback(tbl, events) ==
  Outcome(tbl, HTTP_400_BAD_REQUEST, <<>>, events \o <<"respond">>)

\* The except block of create: rollback, then 400.
create_except(tbl, events) ==
  Outcome(tbl, HTTP_400_BAD_REQUEST, <<>>, events \o <<"rollback", "respond">>)

\* create: Create.  Unset columns take the column default, NULL.
create(tbl, body, fault) ==
  LET d == item_dict(body)
      db_item == [c \in ColNames |-> IF c \in DOMAIN d THEN d[c] ELSE Null]
  IN IF fault = "commit" \/ IntegrityError(tbl, db_item)
       THEN create_except(tbl, <<"add", "commit">>)
     ELSE IF fault = "refresh"
       THEN create_except(tbl \cup {db_item}, <<"add", "commit", "refresh">>)
     ELSE Outcome(tbl \cup {db_item}, HTTP_201_CREATED,
                  <<model_to_dict(db_item)>>,
                  <<"add", "commit", "refresh", "respond">>)

\* The except block of update: rollback, then 400.
update_except(tbl, events) ==
  Outcome(tbl, HTTP_400_BAD_REQUEST, <<>>, events \o <<"rollback", "respond">>)

\* The setattr loop of update over item.dict() without exclude_unset: every
\* field of the schema is set, the unset ones to their default None.
SetAttrs_all(db_item, body) ==
  [c \in ColNames |-> IF c \in DOMAIN body THEN body[c] ELSE Null]

\* The setattr loop of update: the fields of item_dict overwrite the row's.
SetAttrs(db_item, body) ==
  LET d == item_dict(body)
  IN [c \in ColNames |-> IF c \in DOMAIN d THEN d[c] ELSE db_item[c]]

\* update: Update.
update(tbl, n, body, fault) ==
  IF fault = "query" THEN update_except(tbl, <<"query">>)
  ELSE LET found == QueryByPk(tbl, n)
       IN IF found = {} THEN NotFound(tbl, <<"query">>)
          ELSE LET db_item == CHOOSE r \in found : TRUE
                   changed == SetAttrs(db_item, body)
                   others == tbl \ {db_item}
               IN IF fault = "commit" \/ IntegrityError(others, changed)
                    THEN update_except(tbl, <<"query", "commit">>)
                  ELSE IF fault = "refresh"
                    THEN update_except(others \cup {changed},
                                       <<"query", "commit", "refresh">>)
                  ELSE Outcome(others \cup {changed}, HTTP_200_OK,
                               <<model_to_dict(changed)>>,
                               <<"query", "commit", "refresh", "respond">>)

\* The except block of delete: rollback, then 500.
delete_except(tbl, events) ==
  Outcome(tbl, HTTP_500_INTERNAL_SERVER_ERROR, <<>>,
          events \o <<"rollback", "respond">>)

\* delete answering 204 for a missing row as well.
delete_lenient(tbl, n, fault) ==
  IF fault = "query" THEN delete_except(tbl, <<"query">>)
  ELSE IF fault = "commit" THEN delete_except(tbl, <<"query", "delete", "commit">>)
  ELSE Outcome(tbl \ QueryByPk(tbl, n), HTTP_204_NO_CONTENT, <<>>,
               <<"query", "delete", "commit", "respond">>)

\* delete: Delete.
delete(tbl, n, fault) ==
  IF fault = "query" THEN delete_except(tbl, <<"query">>)
  ELSE LET found == QueryByPk(tbl, n)
       IN IF found = {} THEN NotFound(tbl, <<"query">>)
          ELSE IF fault = "commit"
            THEN delete_except(tbl, <<"query", "delete", "commit">>)
          ELSE Outcome(tbl \ found, HTTP_204_NO_CONTENT, <<>>,
                       <<"query", "delete", "commit", "respond">>)

\* filter_subjects: the rows equal on both columns; no try/except, so a
\* failing query surfaces as the server's 500.
filter_subjects(tbl, order, enrollment_id, subject, fault) ==
  IF fault = "query"
    THEN Outcome(tbl, HTTP_500_INTERNAL_SERVER_ERROR, <<>>, <<"query", "respond">>)
    ELSE LET Match(r) == r["enrollment_id"] = enrollment_id /\ r["subject"] = subject
             result == SelectSeq(order, Match)
         IN Outcome(tbl, HTTP_200_OK,
                    [i \in DOMAIN result |-> model_to_dict(result[i])],
                    <<"query", "respond">>)

\* ------------------------------------------------------------- requests
NoParams == [k \in {} |-> Null]

\* The request bodies: any subset of the columns, each with a value of the
\* column or null.
WellTyped(body) == \A c \in DOMAIN body : body[c] \in Values(c) \cup {Null}

Bodies ==
  {b \in UNION {[D -> UNION {Values(c) : c \in ColNames} \cup {Null}] :
                  D \in SUBSET ColNames} : WellTyped(b)}

\* The query strings of List: skip and limit, each given or left out.
ListQueryOk(q) ==
  /\ "skip" \in DOMAIN q => q["skip"] <= MaxSkip
  /\ "limit" \in DOMAIN q => q["limit"] <= MaxLimit

ListQueries ==
  {q \in UNION {[D -> 0..(IF MaxSkip >= MaxLimit THEN MaxSkip ELSE MaxLimit)] :
                  D \in SUBSET {"skip", "limit"}} : ListQueryOk(q)}

\* The query strings of the filter endpoint.
FilterQueries ==
  {q \in [{"enrollment_id", "subject"} -> {"E1", "E2", "Math", "Art"}] :
     q["enrollment_id"] \in {"E1", "E2"} /\ q["subject"] \in {"Math", "Art"}}

\* The URL prefixes requests are sent to: the documented prefix of the
\* binding and, for subjects, the prefix repeated.
Bases(t) ==
  IF t = "subjects"
    THEN {Prefix(t), Prefix(t) \o Prefix(t)}
    ELSE {Prefix(t)}

CollectionPaths(t) == {b \o <<"">> : b \in Bases(t)}
ItemPaths(t) == {b \o <<Num(n)>> : b \in Bases(t), n \in PkValues}
FilterPaths(t) == {b \o <<"filter">> : b \in Bases(t)}

Last(path) == path[Len(path)]

\* One request, from the router's dispatch to the response: the parameters
\* are converted and the body validated before the handler runs.
Serve(t, tbl, method, path, query, body, fault, order, implicitOptional) ==
  LET d == Dispatch(BindingRoutes(t), method, path)
      e == d.endpoint
      Invalid == Outcome(tbl, HTTP_422_UNPROCESSABLE_ENTITY, <<>>, <<"respond">>)
      out ==
        IF e = "none" THEN Outcome(tbl, d.status, <<>>, <<"respond">>)
        ELSE IF e = "get_all"
          THEN get_all(tbl, order,
                       IF "skip" \in DOMAIN query THEN query["skip"] ELSE DefaultSkip,
                       IF "limit" \in DOMAIN query THEN query["limit"] ELSE DefaultLimit,
                       fault)
        ELSE IF e = "create"
          THEN IF CreateSchemaValid(body) THEN create(tbl, body, fault) ELSE Invalid
        ELSE IF e = "filter_subjects"
          THEN IF {"enrollment_id", "subject"} \subseteq DOMAIN query
                 THEN filter_subjects(tbl, order, query["enrollment_id"],
                                      query["subject"], fault)
                 ELSE Invalid
        ELSE IF ParseInt(Last(path)) = {} THEN Invalid
        ELSE LET n == CHOOSE k \in ParseInt(Last(path)) : TRUE
             IN IF e = "get_by_id" THEN get_by_id(tbl, n, fault)
                ELSE IF e = "delete" THEN delete(tbl, n, fault)
                ELSE IF UpdateSchemaValid(body, implicitOptional)
                  THEN update(tbl, n, body, fault)
                  ELSE Invalid
  IN [endpoint |-> e, out |-> out]

NoRequest ==
  [method |-> "none", path |-> <<>>, query |-> NoParams, body |-> NoParams,
   fault |-> "none"]
NoResponse == [endpoint |-> "none", status |-> 0, body |-> <<>>, events |-> <<>>]

\* ---------------------------------------------------------------- state
Init ==
  /\ phase = "starting"
  /\ imported = 0
  /\ schema \in {AllTables} \cup {AllTables \ {m} : m \in AllTables}
  /\ table \in {"subjects", "users_table"}
  /\ rows = {}
  /\ request = NoRequest
  /\ response = NoResponse
  /\ lastDeleted = 0

\* main.py imports the next router module, which looks its table up; a
\* ValueError aborts the import of main and the process.
ImportRouter ==
  /\ phase = "starting"
  /\ imported < Len(RouterModules)
  /\ LET name == RouterModules[imported + 1]
         m == get_model_by_table_name(schema, LookedUpTable(name))
     IN IF m.found
          THEN imported' = imported + 1 /\ phase' = phase
          ELSE imported' = imported /\ phase' = "failed"
  /\ UNCHANGED <<schema, table, rows, request, response, lastDeleted>>

\* main.py builds the app and includes every router: the server listens.
StartServing ==
  /\ phase = "starting"
  /\ imported = Len(RouterModules)
  /\ phase' = "serving"
  /\ UNCHANGED <<imported, schema, table, rows, request, response, lastDeleted>>

\* The server is up and no request is being answered.
Idle == phase = "serving" /\ request = NoRequest

\* One request answered: get_db opens the session, the handler runs.
Handle(method, path, query, body, fault, order, implicitOptional) ==
  LET r == Serve(table, rows, method, path, query, body, fault, order,
                 implicitOptional)
  IN /\ rows' = r.out.rows
     /\ request' = [method |-> method, path |-> path, query |-> query,
                    body |-> body, fault |-> fault]
     /\ response' = [endpoint |-> r.endpoint, status |-> r.out.status,
                     body |-> r.out.body, events |-> r.out.events]
     /\ UNCHANGED <<phase, imported, schema, table, lastDeleted>>

HttpGetList ==
  /\ Idle
  /\ \E path \in CollectionPaths(table), q \in ListQueries,
     fault \in {"none", "query"}, order \in Orderings(rows) :
    Handle("GET", path, q, NoParams, fault, order, FALSE)

HttpGetItem ==
  /\ Idle
  /\ \E path \in ItemPaths(table), fault \in {"none", "query"} :
    Handle("GET", path, NoParams, NoParams, fault, <<>>, FALSE)

HttpGetFilter ==
  /\ Idle
  /\ \E path \in FilterPaths(table), q \in FilterQueries \cup {NoParams},
     fault \in {"none", "query"}, order \in Orderings(rows) :
    Handle("GET", path, q, NoParams, fault, order, FALSE)

HttpPost ==
  /\ Idle
  /\ \E path \in CollectionPaths(table), body \in Bodies,
     fault \in {"none", "commit", "refresh"} :
    Handle("POST", path, NoParams, body, fault, <<>>, FALSE)

HttpPut ==
  /\ Idle
  /\ \E path \in ItemPaths(table), body \in Bodies,
     fault \in {"none", "query", "commit", "refresh"},
     implicitOptional \in BOOLEAN :
    Handle("PUT", path, NoParams, body, fault, <<>>, implicitOptional)

HttpDelete ==
  /\ Idle
  /\ \E path \in ItemPaths(table), fault \in {"none", "query", "commit"} :
    Handle("DELETE", path, NoParams, NoParams, fault, <<>>, FALSE)

\* get_db's finally: the response has been produced, the session is closed.
CloseSession ==
  /\ request # NoRequest
  /\ lastDeleted' =
       IF response.endpoint = "delete" /\ response.status = HTTP_204_NO_CONTENT
         THEN CHOOSE n \in ParseInt(Last(request.path)) : TRUE
         ELSE 0
  /\ request' = NoRequest
  /\ response' = NoResponse
  /\ UNCHANGED <<phase, imported, schema, table, rows>>

Next ==
  \/ ImportRouter
  \/ StartServing
  \/ HttpGetList
  \/ HttpGetItem
  \/ HttpGetFilter
  \/ HttpPost
  \/ HttpPut
  \/ HttpDelete
  \/ CloseSession

Spec == Init /\ [][Next]_vars

\* ---------------------------------------------------------------- claims
Mutating == {"create", "update", "delete"}
Count(events, e) == Cardinality({i \in DOMAIN events : events[i] = e})
Precedes(events, a, b) ==
  \A i, j \in DOMAIN events : (events[i] = a /\ events[j] = b) => i < j

\* The integer the item path of a request names.
PathId(req) == CHOOSE n \in ParseInt(Last(req.path)) : TRUE
HasPathId(req) == req.path # <<>> /\ ParseInt(Last(req.path)) # {}

\* C1: on every exposed table, a POST to P/ whose body B supplies the
\* columns other than the primary key is accepted with 201 and a generated,
\* non-null primary key, and a GET of that key then returns a record equal
\* to B on every field B supplied.
C1_PostThenGet ==
  (/\ request.method = "POST"
   /\ request.path = Prefix(table) \o <<"">>
   /\ request.fault = "none"
   /\ pk_name \notin DOMAIN request.body
   /\ \A c \in ColNames \ {pk_name} : Required(c) => c \in DOMAIN request.body
   /\ \A c \in DOMAIN request.body : request.body[c] = Null => Col(c).nullable)
  => /\ response.endpoint = "create"
     /\ response.status = HTTP_201_CREATED
     /\ Len(response.body) = 1
     /\ response.body[1][pk_name] # Null
     /\ \A c \in DOMAIN request.body : response.body[1][c] = request.body[c]
     /\ \E n \in PkValues :
          /\ Num(n) = response.body[1][pk_name]
          /\ get_by_id(rows, n, "none").status = HTTP_200_OK
          /\ get_by_id(rows, n, "none").body = response.body

\* C2: a PUT that reaches update on an existing row and succeeds sets
\* exactly the fields its body supplies (a supplied null included) and
\* leaves every other field of the row and every other row as it was; it
\* succeeds whenever the database does not fail, no supplied value is a
\* null for a NOT NULL column and no supplied key is another row's key.
C2_PartialUpdate ==
  [][(response'.endpoint = "update" /\ HasPathId(request')
      /\ QueryByPk(rows, PathId(request')) # {})
     => LET old == CHOOSE r \in QueryByPk(rows, PathId(request')) : TRUE
            B == request'.body
        IN /\ response'.status = HTTP_200_OK
                => /\ Len(response'.body) = 1
                   /\ \A c \in ColNames :
                        response'.body[1][c] =
                          IF c \in DOMAIN B THEN B[c] ELSE old[c]
                   /\ rows' = (rows \ {old}) \cup {response'.body[1]}
           /\ (/\ request'.fault = "none"
               /\ \A c \in DOMAIN B : B[c] = Null => Col(c).nullable
               /\ pk_name \in DOMAIN B =>
                    \A r \in rows \ {old} : r[pk_name] # B[pk_name])
                => response'.status = HTTP_200_OK]_vars

\* C2 witness: a PUT with only "subject": null cleared the column of one
\* row while another row exists.
C2_Witness ==
  /\ response.endpoint = "update"
  /\ response.status = HTTP_200_OK
  /\ DOMAIN request.body = {"subject"}
  /\ request.body["subject"] = Null
  /\ response.body[1]["subject"] = Null
  /\ Cardinality(rows) = 2

\* C3 as stated: Create, Update and Delete perform exactly one commit on
\* success and exactly one rollback on any failure, the rollback preceding
\* the error response on every failing path.
C3_Original ==
  response.endpoint \in Mutating =>
    /\ response.status \in {HTTP_200_OK, HTTP_201_CREATED, HTTP_204_NO_CONTENT}
         => Count(response.events, "commit") = 1
    /\ response.status \in {HTTP_400_BAD_REQUEST, HTTP_404_NOT_FOUND,
                            HTTP_500_INTERNAL_SERVER_ERROR}
         => /\ Count(response.events, "rollback") = 1
            /\ Precedes(response.events, "rollback", "respond")

\* C3 amended: Create, Update and Delete perform exactly one commit and no
\* rollback on success; on a failure answered 400 or 500 they perform
\* exactly one rollback, before the error response; on the 404 of a missing
\* row they perform neither a commit nor a rollback.
C3_CommitRollback ==
  response.endpoint \in Mutating =>
    /\ response.status \in {HTTP_200_OK, HTTP_201_CREATED, HTTP_204_NO_CONTENT}
         => /\ Count(response.events, "commit") = 1
            /\ Count(response.events, "rollback") = 0
    /\ response.status \in {HTTP_400_BAD_REQUEST, HTTP_500_INTERNAL_SERVER_ERROR}
         => /\ Count(response.events, "rollback") = 1
            /\ Precedes(response.events, "rollback", "respond")
            /\ Count(response.events, "commit") <= 1
    /\ response.status = HTTP_404_NOT_FOUND
         => /\ Count(response.events, "commit") = 0
            /\ Count(response.events, "rollback") = 0

\* C3 witness: a Create whose refresh failed was rolled back once and
\* answered 400.
C3_Witness ==
  /\ response.endpoint = "create"
  /\ request.fault = "refresh"
  /\ response.status = HTTP_400_BAD_REQUEST
  /\ Count(response.events, "rollback") = 1

\* C4: with the database answering, a DELETE of an existing key returns 204
\* and the row is gone; a DELETE of the key the previous request deleted
\* returns 404 and the row is still gone.
C4_DeleteTwice ==
  [][(response'.endpoint = "delete" /\ HasPathId(request')
      /\ request'.fault = "none")
     => LET n == PathId(request')
        IN /\ QueryByPk(rows, n) # {}
                => /\ response'.status = HTTP_204_NO_CONTENT
                   /\ QueryByPk(rows', n) = {}
           /\ n = lastDeleted
                => /\ response'.status = HTTP_404_NOT_FOUND
                   /\ QueryByPk(rows', n) = {}]_vars

\* C4 witness: the second of two successive deletes of one key got 404.
C4_Witness ==
  /\ response.endpoint = "delete"
  /\ HasPathId(request)
  /\ lastDeleted = PathId(request)
  /\ response.status = HTTP_404_NOT_FOUND

\* C5: with the database answering, a GET that reaches get_by_id for a key
\* no row has returns 404, whatever the table holds.
C5_GetMissing404 ==
  (/\ response.endpoint = "get_by_id"
   /\ HasPathId(request)
   /\ request.fault = "none"
   /\ QueryByPk(rows, PathId(request)) = {})
  => response.status = HTTP_404_NOT_FOUND

\* C5 witness: a GET of the key the previous request deleted, with another
\* row still in the table, got 404.
C5_Witness ==
  /\ response.endpoint = "get_by_id"
  /\ HasPathId(request)
  /\ lastDeleted = PathId(request)
  /\ rows # {}
  /\ response.status = HTTP_404_NOT_FOUND

\* C6: with the database answering, List answers 200 with the rows left
\* after skipping skip rows, at most limit of them (limit 100 when not
\* given): none when limit is 0 and none when skip is at least the row count.
C6_List ==
  (response.endpoint = "get_all" /\ request.fault = "none")
  => LET q == request.query
         skip == IF "skip" \in DOMAIN q THEN q["skip"] ELSE 0
         limit == IF "limit" \in DOMAIN q THEN q["limit"] ELSE 100
         left == IF Cardinality(rows) > skip THEN Cardinality(rows) - skip ELSE 0
         b == response.body
     IN /\ response.status = HTTP_200_OK
        /\ Len(b) = (IF limit <= left THEN limit ELSE left)
        /\ limit = 0 => b = <<>>
        /\ skip >= Cardinality(rows) => b = <<>>
        /\ \A i \in DOMAIN b : b[i] \in rows
        /\ \A i, j \in DOMAIN b : i # j => b[i] # b[j]

\* C6 witness: limit=0 on a table with rows returned the empty array.
C6_Witness ==
  /\ response.endpoint = "get_all"
  /\ request.fault = "none"
  /\ "limit" \in DOMAIN request.query
  /\ request.query["limit"] = 0
  /\ Cardinality(rows) = 2
  /\ response.body = <<>>

\* C7: on the subjects binding, POST /api/subjects/ with
\* {"enrollment_id": "E1", "subject": "Math"} reaches create and returns 201
\* with a non-null primary key and the two supplied fields; and
\* GET /api/subjects/filter?enrollment_id=E1&subject=Math reaches the filter
\* handler, not get_by_id, and returns exactly the matching records.
C7_SubjectsExample ==
  table = "subjects" =>
    /\ (/\ request.method = "POST"
        /\ request.path = <<"api", "subjects", "">>
        /\ request.body = [c \in {"enrollment_id", "subject"} |->
                             IF c = "subject" THEN "Math" ELSE "E1"]
        /\ request.fault = "none")
       => /\ response.endpoint = "create"
          /\ response.status = HTTP_201_CREATED
          /\ Len(response.body) = 1
          /\ response.body[1][pk_name] # Null
          /\ response.body[1]["enrollment_id"] = "E1"
          /\ response.body[1]["subject"] = "Math"
    /\ (/\ request.method = "GET"
        /\ request.path = <<"api", "subjects", "filter">>
        /\ DOMAIN request.query = {"enrollment_id", "subject"}
        /\ request.fault = "none")
       => /\ response.endpoint = "filter_subjects"
          /\ response.status = HTTP_200_OK
          /\ {response.body[i] : i \in DOMAIN response.body} =
               {r \in rows : /\ r["enrollment_id"] = request.query["enrollment_id"]
                             /\ r["subject"] = request.query["subject"]}

\* C8: every database error caught by a handler maps to the status of the
\* taxonomy: a row missing by primary key gives 404, a constraint violation
\* of an insert or update gives 400, and an unexpected query or connection
\* failure gives 500 in each of the five handlers.
C8_Taxonomy ==
  [][(response'.endpoint \in {"get_all", "get_by_id", "create", "update", "delete"}
      /\ response'.status # HTTP_422_UNPROCESSABLE_ENTITY)
     => LET e == response'.endpoint
            B == request'.body
            missing == /\ e \in {"get_by_id", "update", "delete"}
                       /\ QueryByPk(rows, PathId(request')) = {}
        IN /\ request'.fault # "none"
                => response'.status = HTTP_500_INTERNAL_SERVER_ERROR
           /\ (request'.fault = "none" /\ missing)
                => response'.status = HTTP_404_NOT_FOUND
           /\ (/\ request'.fault = "none"
               /\ e = "create"
               /\ \E r \in rows : r[pk_name] = B[pk_name])
                => response'.status = HTTP_400_BAD_REQUEST
           /\ (/\ request'.fault = "none"
               /\ e = "update"
               /\ ~missing
               /\ \/ \E c \in DOMAIN B : B[c] = Null /\ ~Col(c).nullable
                  \/ /\ pk_name \in DOMAIN B
                     /\ B[pk_name] # Num(PathId(request'))
                     /\ \E r \in rows : r[pk_name] = B[pk_name])
                => response'.status = HTTP_400_BAD_REQUEST]_vars

\* C9: if the table mapping names a table the reflected schema lacks, the
\* process never serves: no request is ever answered.
C9_StartupFails ==
  (\E n \in DOMAIN TABLE_MAPPING : TABLE_MAPPING[n] \notin schema)
  => /\ phase # "serving"
     /\ request = NoRequest
     /\ response = NoResponse

\* C9 witness: startup failed at the import of a router module, after
\* earlier modules were imported and before any request.
C9_Witness ==
  /\ phase = "failed"
  /\ imported > 0
  /\ imported < Len(RouterModules)
  /\ TABLE_MAPPING[RouterModules[imported + 1]] \notin schema
  /\ request = NoRequest

\* C10: a Create, Update or Delete answered with 400, 404 or 500 leaves the
\* committed rows exactly as they were before the request.
C10_ErrorLeavesRows ==
  [][(/\ response'.endpoint \in Mutating
      /\ response'.status \in {HTTP_400_BAD_REQUEST, HTTP_404_NOT_FOUND,
                                HTTP_500_INTERNAL_SERVER_ERROR})
     => rows' = rows]_vars

====
